---- MODULE Spec2Model ----
(***************************************************************************)
(* namedstruct: the value model of values.py and its packing algorithm.    *)
(*                                                                         *)
(* Values are records with a kind field k.  Every byte of a packed buffer  *)
(* is a record [v, o]: v is the byte's value (0..255) and o is a ghost     *)
(* label, the tree path of the value object that emitted the byte, so      *)
(* that the place of a value's bytes in a buffer can be read off the       *)
(* buffer itself.  The labels never influence v or any length.             *)
(*                                                                         *)
(* types.py, namedstruct.py and bithelper.py are not part of the sources   *)
(* at hand; the operators that stand for them are modelled after the       *)
(* specification and are marked as such where they are defined.            *)
(***************************************************************************)
EXTENDS Integers, Sequences, FiniteSets, TLC

\* python's None, for dataOffset, fixedSize and byteAlignment arguments
None == -1

VARIABLES
    st,          \* builder session: the Struct under construction (type and values)
    bf,          \* builder session: the BitField object
    bfa,         \* builder session: the BitFieldArray object
    blobStrings, \* the module-level list of values.py, by its length
    val,         \* packing session: the value handed to pack
    cur,         \* packing session: the dataOffset of the last pack call
    res,         \* outcome of the last call: "ok" or the error raised
    out          \* result of the last pack call

vars == <<st, bf, bfa, blobStrings, val, cur, res, out>>

----------------------------------------------------------------------------
(* Bounds of the model *)

\* members a struct under construction may receive (padding not counted)
MaxMembers == 2
\* members of the top-level struct of a packed value tree
MaxTop == 2
\* largest write cursor handed to a directly packed value
MaxCursor == 9
\* fields of the bit field / entries of the bit field array
MaxFields == 1
MaxEntries == 2
MaxBlobs == 2
MaxChars == 3
MaxWidth == 3
MaxBitFields == 4
MaxArrayFields == 2

----------------------------------------------------------------------------
(* Sequences and bytes *)

Min(a, b) == IF a <= b THEN a ELSE b
Max(a, b) == IF a >= b THEN a ELSE b

RECURSIVE SumSeq(_)
SumSeq(s) == IF s = <<>> THEN 0 ELSE Head(s) + SumSeq(Tail(s))

RECURSIVE Pow2(_)
Pow2(n) == IF n = 0 THEN 1 ELSE 2 * Pow2(n - 1)

Byte(v, o) == [v |-> v, o |-> o]

\* "\x00" * n ; python yields the empty string for n <= 0
Zeros(n, o) == [i \in 1..Max(n, 0) |-> Byte(0, o)]

\* the label of alignment padding emitted by the reference at path p
PadLabel(p) == p \o <<-1>>

\* types.IntType.pack: little-endian, bitWidth/8 bytes
IntTypePack(x, bitWidth, o) ==
    [i \in 1..(bitWidth \div 8) |-> Byte((x \div Pow2(8 * (i - 1))) % 256, o)]

\* the integer a run of little-endian bytes encodes
RECURSIVE Decode(_)
Decode(bs) == IF bs = <<>> THEN 0 ELSE Head(bs).v + 256 * Decode(Tail(bs))

----------------------------------------------------------------------------
(* Value constructors *)

\* Int.__init__(intValue, unsigned, bitWidth)
IntValue(intValue, unsigned, bitWidth) ==
    [k |-> "int", v |-> intValue, unsigned |-> unsigned, bitWidth |-> bitWidth,
     p |-> <<>>]

\* Padding.__init__
Padding == IntValue(0, TRUE, 8)

\* Null.__init__
Null == [k |-> "null", p |-> <<>>]

\* python's None where an object (a value, a type) is expected
NoneValue == [k |-> "None"]

\* getValue, for the arguments the model passes: a Value or None
getValue(value) == IF value.k = "None" THEN Null ELSE value

\* Reference.__init__: targetType is accepted for a None target only, and the
\* reference's type is taken from the target value (Null for None) either way.
ReferenceInitRaises(targetValue, targetType) ==
    targetValue.k # "None" /\ targetType.k # "None"

Reference(targetValue, referenceBitWidth) ==
    [k |-> "ref", targetValue |-> getValue(targetValue),
     referenceBitWidth |-> referenceBitWidth, p |-> <<>>]

\* the aliases of the one BitField and the one BitFieldArray object of a
\* builder session: a member list holds the object, not a copy of it
BitFieldRef == [k |-> "bf", p |-> <<>>]
BitFieldArrayRef == [k |-> "bfa", p |-> <<>>]

----------------------------------------------------------------------------
(* Types: width, alignment, immediacy (types.py) *)

\* a type as the array classes use it: kind, byte width of one value, alignment
TypeRec(k, width, alignment) == [k |-> k, width |-> width, alignment |-> alignment]

CharType == TypeRec("char", 1, 1)
IntType(bitWidth) == TypeRec("int", bitWidth \div 8, bitWidth \div 8)
ReferenceType(referenceBitWidth) ==
    TypeRec("ref", referenceBitWidth \div 8, referenceBitWidth \div 8)

\* SimpleArray.__init__(elementType, values, fixedSize, byteAlignment)
SimpleArrayInitRaises(elementType, values, fixedSize) ==
    \/ elementType.k = "ref"
    \/ fixedSize # None /\ ~(Len(values) <= fixedSize)

\* Array.__init__ sets elementsAreValueObjects from the first element
SimpleArray(elementType, values, fixedSize, byteAlignment) ==
    [k |-> "sarr", elementType |-> elementType, values |-> values,
     fixedSize |-> fixedSize, byteAlignment |-> byteAlignment,
     elementsAreValueObjects |-> (Len(values) > 0 /\ elementType.k = "struct"),
     p |-> <<>>]

\* ReferenceArray.__init__(values, fixedSize, referenceBitWidth)
ReferenceArrayInitRaises(values, fixedSize) ==
    \/ Len(values) = 0
    \/ fixedSize # None /\ ~(Len(values) <= fixedSize)
    \/ \E i \in 1..Len(values) : values[i].k = "ref"

ReferenceArray(values, fixedSize, referenceBitWidth) ==
    [k |-> "rarr", elementType |-> ReferenceType(referenceBitWidth),
     values |-> [i \in 1..Len(values) |-> Reference(values[i], referenceBitWidth)],
     fixedSize |-> fixedSize, referenceBitWidth |-> referenceBitWidth,
     elementsAreValueObjects |-> TRUE, p |-> <<>>]

\* String.__init__ forgetting omitTerminal
StringCharsKeepsTerminal(n, c, omitTerminal) == [i \in 1..n |-> c] \o <<0>>

\* String.__init__ for a string of n characters c: the characters, then the
\* terminator stringhelper.stringToChars appends, which omitTerminal removes
StringChars(n, c, omitTerminal) ==
    [i \in 1..n |-> c] \o (IF omitTerminal THEN <<>> ELSE <<0>>)

String(n, c, fixedSize, omitTerminal) ==
    SimpleArray(CharType, StringChars(n, c, omitTerminal), fixedSize, None)

\* the default byte alignment of a simple array without one of its own
DefaultArrayAlignment == 4

\* Struct.__init__
Struct == [k |-> "struct", slots |-> <<>>, size |-> 0, finalized |-> FALSE,
           values |-> <<>>, p |-> <<>>]

RECURSIVE MaxAlignment(_)
MaxAlignment(slots) ==
    IF slots = <<>> THEN 1 ELSE Max(Head(slots).alignment, MaxAlignment(Tail(slots)))

\* Type.getAlignment of the value's type
getAlignment(v) ==
    CASE v.k = "int" -> v.bitWidth \div 8
      [] v.k = "null" -> 1
      [] v.k = "ref" -> v.referenceBitWidth \div 8
      [] v.k = "sarr" -> IF v.byteAlignment = None THEN DefaultArrayAlignment
                         ELSE v.byteAlignment
      [] v.k = "rarr" -> v.referenceBitWidth \div 8
      [] v.k = "struct" -> MaxAlignment(v.slots)
      [] v.k = "bf" -> bf.bitWidth \div 8
      [] v.k = "bfa" -> 4

\* Type.isImmediate of the value's type
isImmediate(v) ==
    CASE v.k \in {"int", "ref", "bf"} -> TRUE
      [] v.k \in {"sarr", "rarr"} -> v.fixedSize # None
      [] OTHER -> FALSE

----------------------------------------------------------------------------
(* BitField and BitFieldArray objects *)

\* BitField.__init__(name, bitWidth)
BitField(bitWidth) == [bitWidth |-> bitWidth, fieldWidths |-> <<>>, values |-> <<>>]

\* BitFieldType.add: the declared container width caps the summed field widths
BitFieldTypeAddRaises(b, bitWidth) == SumSeq(b.fieldWidths) + bitWidth > b.bitWidth

\* BitField.add appending the value before the type is asked
BitFieldAddValueFirst(b, value, bitWidth) ==
    IF ~(value >= 0 /\ value < Pow2(bitWidth))
    THEN [err |-> "AssertionError", b |-> b]
    ELSE IF BitFieldTypeAddRaises(b, bitWidth)
    THEN [err |-> "ValueOutOfRange", b |-> [b EXCEPT !.values = Append(@, value)]]
    ELSE [err |-> "ok",
          b |-> [b EXCEPT !.fieldWidths = Append(@, bitWidth),
                          !.values = Append(@, value)]]

\* BitField.add(name, value, bitWidth): [err, b]
BitFieldAdd(b, value, bitWidth) ==
    IF ~(value >= 0 /\ value < Pow2(bitWidth))
    THEN [err |-> "AssertionError", b |-> b]
    ELSE IF BitFieldTypeAddRaises(b, bitWidth)
    THEN [err |-> "ValueOutOfRange", b |-> b]
    ELSE [err |-> "ok",
          b |-> [b EXCEPT !.fieldWidths = Append(@, bitWidth),
                          !.values = Append(@, value)]]

\* BitField.pack with a shift that never advances
RECURSIVE BitFieldValueNoShift(_, _, _)
BitFieldValueNoShift(values, fieldWidths, shift) ==
    IF values = <<>> THEN 0
    ELSE Head(values) * Pow2(shift)
         + BitFieldValueNoShift(Tail(values), Tail(fieldWidths), shift)

\* BitField.pack: value = OR of v << shift (the fields do not overlap: a sum)
RECURSIVE BitFieldValue(_, _, _)
BitFieldValue(values, fieldWidths, shift) ==
    IF values = <<>> THEN 0
    ELSE Head(values) * Pow2(shift)
         + BitFieldValue(Tail(values), Tail(fieldWidths), shift + Head(fieldWidths))

\* BitFieldArray.__init__(name, *fields)
BitFieldArray(numFields) == [numFields |-> numFields, entries |-> <<>>]

\* what BitFieldArray.add is handed for a field: an integer, a Blob of the
\* given bits, or something that is neither; an entry keeps (isBlob, value),
\* the value of a Blob being its bits
IntField(x) == [t |-> "int", value |-> x, bits |-> <<>>]
BlobField(bits) == [t |-> "blob", value |-> 0, bits |-> bits]
OtherField == [t |-> "other", value |-> 0, bits |-> <<>>]

\* BitFieldArray.add(fieldValues), fieldValues a sequence: [err, a]
\* (value < 2**31 is written value <= 2147483647)
BitFieldArrayAdd(a, fieldValues) ==
    IF Len(fieldValues) # a.numFields
    THEN [err |-> "AssertionError", a |-> a]
    ELSE IF \E i \in 1..Len(fieldValues) :
                \/ fieldValues[i].t = "other"
                \/ /\ fieldValues[i].t = "int"
                   /\ ~(fieldValues[i].value >= 0 /\ fieldValues[i].value <= 2147483647)
    THEN [err |-> "Exception", a |-> a]
    ELSE [err |-> "ok",
          a |-> [a EXCEPT !.entries =
                    Append(@, [i \in 1..Len(fieldValues) |->
                                  [isBlob |-> fieldValues[i].t = "blob",
                                   value |-> fieldValues[i].value,
                                   bits |-> fieldValues[i].bits]])]]

\* bithelper.requiredBits
RECURSIVE requiredBits(_)
requiredBits(x) == IF x <= 0 THEN 0 ELSE 1 + requiredBits(x \div 2)

\* bithelper.toBits(value, numBits): least significant bit first
toBits(value, numBits) == [i \in 1..numBits |-> (value \div Pow2(i - 1)) % 2]

\* bithelper.packBitsToChars: bit i of byte j is blob[8*j + i]
packBitsToChars(bits) ==
    [j \in 1..((Len(bits) + 7) \div 8) |->
        SumSeq([i \in 1..8 |->
            IF 8 * (j - 1) + i <= Len(bits)
            THEN bits[8 * (j - 1) + i] * Pow2(i - 1) ELSE 0])]

RECURSIVE MaxSeq(_)
MaxSeq(s) == IF s = <<>> THEN 0 ELSE Max(Head(s), MaxSeq(Tail(s)))

\* BitFieldArray.getFieldLengths looking at the first entry only
getFieldLengthsFirstEntry(a) ==
    IF Len(a.entries) = 0 THEN [f \in 1..a.numFields |-> 0]
    ELSE [f \in 1..a.numFields |->
            IF a.entries[1][f].isBlob THEN Len(a.entries[1][f].bits)
            ELSE requiredBits(a.entries[1][f].value)]

\* BitFieldArray.getFieldLengths
getFieldLengths(a) ==
    IF Len(a.entries) = 0 THEN [f \in 1..a.numFields |-> 0]
    ELSE [f \in 1..a.numFields |->
            MaxSeq([e \in 1..Len(a.entries) |->
                IF a.entries[e][f].isBlob THEN Len(a.entries[e][f].bits)
                ELSE requiredBits(a.entries[e][f].value)])]

\* BitFieldArray.pack with inclusive prefix sums in the header
BitFieldArrayHeaderInclusive(a) ==
    LET fieldLengths == getFieldLengths(a)
        offset == (Len(fieldLengths) + 2) * 16
    IN <<SumSeq(fieldLengths)>> \o
       [i \in 1..(Len(fieldLengths) + 1) |->
           offset + SumSeq(SubSeq(fieldLengths, 1, Min(i, Len(fieldLengths))))]

\* BitFieldArray.pack: the header words
BitFieldArrayHeader(a) ==
    LET fieldLengths == getFieldLengths(a)
        offset == (Len(fieldLengths) + 2) * 16
    IN <<SumSeq(fieldLengths)>> \o
       [i \in 1..(Len(fieldLengths) + 1) |->
           offset + SumSeq(SubSeq(fieldLengths, 1, i - 1))]

\* BitFieldArray.pack copying a Blob without the zeros up to the field width
RECURSIVE EntryBitsBlobUnpadded(_, _, _)
EntryBitsBlobUnpadded(entry, fieldLengths, i) ==
    IF i > Len(entry) THEN <<>>
    ELSE (IF entry[i].isBlob
          THEN entry[i].bits
          ELSE toBits(entry[i].value, fieldLengths[i]))
         \o EntryBitsBlobUnpadded(entry, fieldLengths, i + 1)

\* BitFieldArray.pack: the bits of one entry, then of all entries
RECURSIVE EntryBits(_, _, _)
EntryBits(entry, fieldLengths, i) ==
    IF i > Len(entry) THEN <<>>
    ELSE (IF entry[i].isBlob
          THEN entry[i].bits
               \o [j \in 1..Max(fieldLengths[i] - Len(entry[i].bits), 0) |-> 0]
          ELSE toBits(entry[i].value, fieldLengths[i]))
         \o EntryBits(entry, fieldLengths, i + 1)

RECURSIVE BitFieldArrayBlob(_, _)
BitFieldArrayBlob(entries, fieldLengths) ==
    IF entries = <<>> THEN <<>>
    ELSE EntryBits(Head(entries), fieldLengths, 1)
         \o BitFieldArrayBlob(Tail(entries), fieldLengths)

----------------------------------------------------------------------------
(* Sizes *)

RECURSIVE getImmediateDataSize(_)
getImmediateDataSize(v) ==
    CASE v.k = "int" -> v.bitWidth \div 8
      [] v.k = "null" -> 0
      [] v.k = "ref" -> v.referenceBitWidth \div 8
      [] v.k \in {"sarr", "rarr"} ->
            v.elementType.width
            * (IF v.fixedSize = None THEN Len(v.values) ELSE v.fixedSize)
      [] v.k = "struct" ->
            SumSeq([i \in 1..Len(v.values) |-> getImmediateDataSize(v.values[i])])
      [] v.k = "bf" -> bf.bitWidth \div 8
      [] v.k = "bfa" ->
            LET fieldLengths == getFieldLengths(bfa)
            IN (Len(fieldLengths) + 2) * 2
               + (SumSeq(fieldLengths) * Len(bfa.entries) + 7) \div 8

\* Value.getType, as the array classes and StructType.addMember read it
getType(v) == TypeRec(v.k, getImmediateDataSize(v), getAlignment(v))

----------------------------------------------------------------------------
(* Packing: value.pack(dataOffset) -> (immediate, offseted), or an exception *)

Packed(imm, ind) == [imm |-> imm, ind |-> ind, err |-> FALSE]
Raised == [imm |-> <<>>, ind |-> <<>>, err |-> TRUE]

\* Type.pack(value) of an array's element type, for a python value
TypePack(elementType, value, o) == IntTypePack(value, 8 * elementType.width, o)

\* PrimitiveValue.pack
PrimitivePack(v, dataOffset) == Packed(IntTypePack(v.v, v.bitWidth, v.p), <<>>)

\* BitField.pack
BitFieldPack(v, dataOffset) ==
    Packed(IntTypePack(BitFieldValue(bf.values, bf.fieldWidths, 0), bf.bitWidth, v.p),
           <<>>)

\* BitFieldArray.pack collecting its bits in an array shared between calls
BitFieldArrayPackShared(v, dataOffset) ==
    LET fieldLengths == getFieldLengths(bfa)
        headerValues == BitFieldArrayHeader(bfa)
        header == [i \in 1..(2 * Len(headerValues)) |->
                      IntTypePack(headerValues[(i + 1) \div 2], 16, v.p)[2 - (i % 2)]]
        chars == packBitsToChars(BitFieldArrayBlob(bfa.entries, fieldLengths))
        data == [i \in 1..Len(chars) |-> Byte(chars[i], v.p)]
    IN Packed(header \o Zeros(blobStrings, v.p) \o data, <<>>)

\* BitFieldArray.pack
BitFieldArrayPack(v, dataOffset) ==
    LET fieldLengths == getFieldLengths(bfa)
        headerValues == BitFieldArrayHeader(bfa)
        header == [i \in 1..(2 * Len(headerValues)) |->
                      IntTypePack(headerValues[(i + 1) \div 2], 16, v.p)[2 - (i % 2)]]
        chars == packBitsToChars(BitFieldArrayBlob(bfa.entries, fieldLengths))
        data == [i \in 1..Len(chars) |-> Byte(chars[i], v.p)]
    IN Packed(header \o data, <<>>)

RECURSIVE ValuePack(_, _)
RECURSIVE namedstructPack(_)
RECURSIVE ArrayPackLoop(_, _, _, _, _, _, _)
RECURSIVE StructPackLoop(_, _, _, _, _)

\* Reference.pack writing the write cursor itself, before alignment
ReferencePackUnaligned(v, dataOffset) ==
    IF dataOffset = None THEN Raised
    ELSE IF v.targetValue.k = "null"
    THEN Packed(IntTypePack(0, v.referenceBitWidth, v.p), <<>>)
    ELSE LET padding == (-dataOffset) % getAlignment(v.targetValue)
             packedReference == IntTypePack(dataOffset, v.referenceBitWidth, v.p)
             target == namedstructPack(v.targetValue)
         IN IF target.err THEN Raised
            ELSE Packed(packedReference, Zeros(padding, PadLabel(v.p)) \o target.imm)

\* Reference.pack without the test for an absent target
ReferencePackNoNullTest(v, dataOffset) ==
    IF dataOffset = None THEN Raised
    ELSE LET padding == (-dataOffset) % getAlignment(v.targetValue)
             packedReference == IntTypePack(dataOffset + padding, v.referenceBitWidth, v.p)
             target == namedstructPack(v.targetValue)
         IN IF target.err THEN Raised
            ELSE Packed(packedReference, Zeros(padding, PadLabel(v.p)) \o target.imm)

\* Reference.pack emitting the target right at the cursor, without the zero bytes
ReferencePackNoPaddingBytes(v, dataOffset) ==
    IF dataOffset = None THEN Raised
    ELSE IF v.targetValue.k = "null"
    THEN Packed(IntTypePack(0, v.referenceBitWidth, v.p), <<>>)
    ELSE LET padding == (-dataOffset) % getAlignment(v.targetValue)
             packedReference == IntTypePack(dataOffset + padding, v.referenceBitWidth, v.p)
             target == namedstructPack(v.targetValue)
         IN IF target.err THEN Raised
            ELSE Packed(packedReference, target.imm)

\* Reference.pack
ReferencePack(v, dataOffset) ==
    IF dataOffset = None THEN Raised
    ELSE IF v.targetValue.k = "null"
    THEN Packed(IntTypePack(0, v.referenceBitWidth, v.p), <<>>)
    ELSE LET padding == (-dataOffset) % getAlignment(v.targetValue)
             packedReference == IntTypePack(dataOffset + padding, v.referenceBitWidth, v.p)
             target == namedstructPack(v.targetValue)
         IN IF target.err THEN Raised
            ELSE Packed(packedReference, Zeros(padding, PadLabel(v.p)) \o target.imm)

\* Array.pack: the loop over self.values from index i on
ArrayPackLoop(a, i, dataOffset, elementOffsetsRelativeToElement, immediateData, offsetedData, immediateLen) ==
    IF i > Len(a.values) THEN Packed(immediateData, offsetedData)
    ELSE IF a.elementsAreValueObjects
    THEN LET r == ValuePack(a.values[i],
                            dataOffset - (IF elementOffsetsRelativeToElement
                                          THEN immediateLen ELSE 0))
         IN IF r.err THEN Raised
            ELSE ArrayPackLoop(a, i + 1, dataOffset + Len(r.ind),
                               elementOffsetsRelativeToElement,
                               immediateData \o r.imm, offsetedData \o r.ind,
                               immediateLen + Len(r.imm))
    ELSE LET b == TypePack(a.elementType, a.values[i], a.p \o <<i>>)
         IN ArrayPackLoop(a, i + 1, dataOffset, elementOffsetsRelativeToElement,
                          immediateData \o b, offsetedData, immediateLen + Len(b))

\* Array.pack
ArrayPack(a, dataOffset, elementOffsetsRelativeToElement) ==
    ArrayPackLoop(a, 1,
                  IF dataOffset = None THEN getImmediateDataSize(a) ELSE dataOffset,
                  elementOffsetsRelativeToElement, <<>>, <<>>, 0)

\* the zero fill counting slots where bytes are due
ArrayFillSlots(a, immediateData) ==
    IF a.fixedSize # None
    THEN immediateData \o Zeros(a.fixedSize - Len(a.values), a.p)
    ELSE immediateData

\* the zero fill of a fixed-size array's unused slots
ArrayFill(a, immediateData) ==
    IF a.fixedSize # None
    THEN immediateData \o Zeros(getImmediateDataSize(a) - Len(immediateData), a.p)
    ELSE immediateData

\* SimpleArray.pack
SimpleArrayPack(a, dataOffset) ==
    LET r == ArrayPack(a, dataOffset, TRUE)
        immediateData == ArrayFill(a, r.imm)
    IN IF r.err THEN Raised
       ELSE IF dataOffset = None THEN Packed(immediateData \o r.ind, <<>>)
       ELSE Packed(immediateData, r.ind)

\* ReferenceArray.pack
ReferenceArrayPack(a, dataOffset) ==
    LET combine == dataOffset = None
        r == ArrayPack(a, IF combine THEN getImmediateDataSize(a) ELSE dataOffset, FALSE)
        immediateData == ArrayFill(a, r.imm)
    IN IF r.err THEN Raised
       ELSE IF combine THEN Packed(immediateData \o r.ind, <<>>)
       ELSE Packed(immediateData, r.ind)

\* Struct.pack's loop with the write cursor left where it started
RECURSIVE StructPackLoopCursorKept(_, _, _, _, _)
StructPackLoopCursorKept(s, i, dataOffset, immediateData, offsetedData) ==
    IF i > Len(s.values) THEN Packed(immediateData, offsetedData)
    ELSE IF i > Len(s.slots) THEN Raised
    ELSE LET r == ValuePack(s.values[i], dataOffset)
         IN IF r.err THEN Raised
            ELSE StructPackLoopCursorKept(s, i + 1, dataOffset,
                                          immediateData \o r.imm, offsetedData \o r.ind)

\* Struct.pack's loop putting each member's referred bytes before the earlier ones
RECURSIVE StructPackLoopNewestFirst(_, _, _, _, _)
StructPackLoopNewestFirst(s, i, dataOffset, immediateData, offsetedData) ==
    IF i > Len(s.values) THEN Packed(immediateData, offsetedData)
    ELSE IF i > Len(s.slots) THEN Raised
    ELSE LET r == ValuePack(s.values[i], dataOffset)
         IN IF r.err THEN Raised
            ELSE StructPackLoopNewestFirst(s, i + 1, dataOffset + Len(r.ind),
                                           immediateData \o r.imm, r.ind \o offsetedData)

\* Struct.pack: the loop over self.values from index i on; names[i] must exist
StructPackLoop(s, i, dataOffset, immediateData, offsetedData) ==
    IF i > Len(s.values) THEN Packed(immediateData, offsetedData)
    ELSE IF i > Len(s.slots) THEN Raised
    ELSE LET r == ValuePack(s.values[i], dataOffset)
         IN IF r.err THEN Raised
            ELSE StructPackLoop(s, i + 1, dataOffset + Len(r.ind),
                                immediateData \o r.imm, offsetedData \o r.ind)

\* Struct.pack
StructPack(s, dataOffset) ==
    LET combine == dataOffset = None
        r == StructPackLoop(s, 1,
                            IF combine THEN getImmediateDataSize(s) ELSE dataOffset,
                            <<>>, <<>>)
        padding == getImmediateDataSize(s) - Len(r.imm)
        immediateData == r.imm \o Zeros(padding, s.p)
    IN IF r.err THEN Raised
       ELSE IF combine THEN Packed(immediateData \o r.ind, <<>>)
       ELSE Packed(immediateData, r.ind)

\* value.pack(dataOffset), dispatched on the value's class; Null inherits
\* Value.pack, which raises
ValuePack(v, dataOffset) ==
    CASE v.k = "int" -> PrimitivePack(v, dataOffset)
      [] v.k = "ref" -> ReferencePack(v, dataOffset)
      [] v.k = "sarr" -> SimpleArrayPack(v, dataOffset)
      [] v.k = "rarr" -> ReferenceArrayPack(v, dataOffset)
      [] v.k = "struct" -> StructPack(v, dataOffset)
      [] v.k = "bf" -> BitFieldPack(v, dataOffset)
      [] v.k = "bfa" -> BitFieldArrayPack(v, dataOffset)
      [] OTHER -> Raised

\* namedstruct.pack(value): both parts of value.pack(), joined
namedstructPack(value) ==
    LET r == ValuePack(value, None)
    IN IF r.err THEN Raised ELSE Packed(r.imm \o r.ind, <<>>)

----------------------------------------------------------------------------
(* Ghost labels: the tree path of every value object *)

RECURSIVE Label(_, _)
Label(v, p) ==
    CASE v.k = "ref" ->
            [v EXCEPT !.p = p, !.targetValue = Label(@, p \o <<0>>)]
      [] v.k = "struct" ->
            [v EXCEPT !.p = p,
                      !.values = [i \in 1..Len(@) |-> Label(@[i], p \o <<i>>)]]
      [] v.k \in {"sarr", "rarr"} ->
            IF v.elementsAreValueObjects
            THEN [v EXCEPT !.p = p,
                           !.values = [i \in 1..Len(@) |-> Label(@[i], p \o <<i>>)]]
            ELSE [v EXCEPT !.p = p]
      [] OTHER -> [v EXCEPT !.p = p]

----------------------------------------------------------------------------
(* The Struct builder *)

RoundUp(n, alignment) == n + ((-n) % alignment)

PadSlots(from, n) ==
    [i \in 1..n |-> [name |-> 0, offset |-> from + i - 1, width |-> 1,
                     alignment |-> 1, pad |-> TRUE]]

MemberNames(s) == {s.slots[i].name : i \in {j \in 1..Len(s.slots) : ~s.slots[j].pad}}

\* StructType.addMember(name, type): [err, padBytes, s]
StructTypeAddMember(s, name, type) ==
    IF s.finalized THEN [err |-> "StructAlreadyFinalized", padBytes |-> 0, s |-> s]
    ELSE IF name \in MemberNames(s)
    THEN [err |-> "NameCollision", padBytes |-> 0, s |-> s]
    ELSE LET offset == RoundUp(s.size, type.alignment)
             padBytes == offset - s.size
         IN [err |-> "ok", padBytes |-> padBytes,
             s |-> [s EXCEPT !.slots = @ \o PadSlots(s.size, padBytes)
                                         \o <<[name |-> name, offset |-> offset,
                                               width |-> type.width,
                                               alignment |-> type.alignment,
                                               pad |-> FALSE]>>,
                             !.size = offset + type.width]]

\* StructType.finalize(byteAlignment): [err, padBytes, s]
StructTypeFinalize(s, byteAlignment) ==
    IF s.finalized THEN [err |-> "StructAlreadyFinalized", padBytes |-> 0, s |-> s]
    ELSE LET padBytes == RoundUp(s.size, byteAlignment) - s.size
         IN [err |-> "ok", padBytes |-> padBytes,
             s |-> [s EXCEPT !.slots = @ \o PadSlots(s.size, padBytes),
                             !.size = @ + padBytes,
                             !.finalized = TRUE]]

Paddings(n) == [i \in 1..n |-> Padding]

\* Struct.addImmediate without the Padding placeholders
StructAddImmediateNoPadding(s, name, value) ==
    LET v == getValue(value)
        t == StructTypeAddMember(s, name, getType(v))
    IN IF t.err # "ok" THEN [err |-> t.err, s |-> s]
       ELSE [err |-> "ok", s |-> [t.s EXCEPT !.values = @ \o <<v>>]]

\* Struct.addImmediate appending the value before the type is asked
StructAddImmediateValueFirst(s, name, value) ==
    LET v == getValue(value)
        t == StructTypeAddMember(s, name, getType(v))
    IN IF t.err # "ok" THEN [err |-> t.err, s |-> [s EXCEPT !.values = @ \o <<v>>]]
       ELSE [err |-> "ok",
             s |-> [t.s EXCEPT !.values = @ \o Paddings(t.padBytes) \o <<v>>]]

\* Struct.addImmediate storing the value over the member that has the name
StructAddImmediateOverwrites(s, name, value) ==
    LET v == getValue(value)
        t == StructTypeAddMember(s, name, getType(v))
        i == CHOOSE j \in 1..Len(s.slots) : ~s.slots[j].pad /\ s.slots[j].name = name
    IN IF t.err = "NameCollision"
       THEN [err |-> t.err, s |-> [s EXCEPT !.values[i] = v]]
       ELSE IF t.err # "ok" THEN [err |-> t.err, s |-> s]
       ELSE [err |-> "ok",
             s |-> [t.s EXCEPT !.values = @ \o Paddings(t.padBytes) \o <<v>>]]

\* Struct.addImmediate(name, value): [err, s]
StructAddImmediate(s, name, value) ==
    LET v == getValue(value)
        t == StructTypeAddMember(s, name, getType(v))
    IN IF t.err # "ok" THEN [err |-> t.err, s |-> s]
       ELSE [err |-> "ok",
             s |-> [t.s EXCEPT !.values = @ \o Paddings(t.padBytes) \o <<v>>]]

\* Struct.addReference(name, value, referenceBitWidth, targetType): [err, s]
StructAddReference(s, name, value, referenceBitWidth, targetType) ==
    IF targetType.k # "None"
    THEN IF value.k # "None" THEN [err |-> "Exception", s |-> s]
         ELSE StructAddImmediate(s, name, Reference(NoneValue, referenceBitWidth))
    ELSE StructAddImmediate(s, name, Reference(value, referenceBitWidth))

\* Struct.add(name, value): [err, s]
StructAdd(s, name, value) ==
    IF isImmediate(getValue(value))
    THEN StructAddImmediate(s, name, getValue(value))
    ELSE StructAddReference(s, name, getValue(value), 32, NoneValue)

\* Struct.addString(name, string, fixedWidth, omitTerminal, referenceBitWidth),
\* string being None or the number of its characters: [err, s]
StructAddString(s, name, string, fixedWidth, omitTerminal, referenceBitWidth) ==
    IF string = None
    THEN IF fixedWidth # None THEN [err |-> "Exception", s |-> s]
         ELSE StructAddImmediate(s, name, Reference(NoneValue, 32))
    ELSE IF SimpleArrayInitRaises(CharType, StringChars(string, 97, omitTerminal), fixedWidth)
    THEN [err |-> "AssertionError", s |-> s]
    ELSE StructAddReference(s, name, String(string, 97, fixedWidth, omitTerminal),
                            referenceBitWidth, NoneValue)

\* Blob.__init__(blob, fixedSize, byteAlignment), blob a sequence of bits
Blob(blob, fixedSize, byteAlignment) ==
    SimpleArray(CharType, packBitsToChars(blob), fixedSize, byteAlignment)

\* Struct.addBlob(name, blob, byteAlignment, referenceBitWidth): [err, s]
StructAddBlob(s, name, blob, byteAlignment, referenceBitWidth) ==
    StructAddReference(s, name, Blob(blob, None, 4), referenceBitWidth, NoneValue)

\* Struct.finalize leaving the final pad bytes out of the member-value list
StructFinalizeNoPadding(s, byteAlignment) ==
    LET t == StructTypeFinalize(s, byteAlignment)
    IN IF t.err # "ok" THEN [err |-> t.err, s |-> s]
       ELSE [err |-> "ok", s |-> t.s]

\* Struct.finalize(byteAlignment): [err, s]
StructFinalize(s, byteAlignment) ==
    LET t == StructTypeFinalize(s, byteAlignment)
    IN IF t.err # "ok" THEN [err |-> t.err, s |-> s]
       ELSE [err |-> "ok", s |-> [t.s EXCEPT !.values = @ \o Paddings(t.padBytes)]]

----------------------------------------------------------------------------
(* Packing sessions: value trees are built, then handed to pack *)

I8 == IntValue(7, FALSE, 8)
I16 == IntValue(258, FALSE, 16)
I32 == IntValue(66051, FALSE, 32)

\* nested records: {ref8 -> int16}, {int8, ref8 -> int16},
\* {ref8 -> int16, ref8 -> int32}, {int8}
InnerA == StructAddReference(Struct, 1, I16, 8, NoneValue).s
InnerB == StructAddReference(StructAdd(Struct, 1, I8).s, 2, I16, 8, NoneValue).s
InnerC == StructAddReference(InnerA, 2, I32, 8, NoneValue).s
InnerD == StructAdd(Struct, 1, I8).s

StructElements(s, fixedSize) == SimpleArray(getType(s), <<s, s>>, fixedSize, None)

\* what Struct.add, Struct.addReference and Struct.addImmediate are called with
AddValues ==
    {I8, I32, NoneValue, InnerB, String(2, 97, None, FALSE),
     StructElements(InnerB, None), StructElements(InnerA, 3),
     ReferenceArray(<<I16, NoneValue>>, None, 8), ReferenceArray(<<I8, I16>>, 3, 8)}
AddReferenceValues == {I16, InnerA, InnerC}
AddImmediateValues == {InnerA, InnerB}
ReferenceBitWidths == {8, 16, 32}

NumMembers(s) == Cardinality({i \in 1..Len(s.slots) : ~s.slots[i].pad})

Result(op, name, err) == [op |-> op, name |-> name, err |-> err]
NoOutput == Packed(<<>>, <<>>)

PackInit ==
    /\ val = Struct /\ cur = None /\ res = Result("init", 0, "ok") /\ out = NoOutput
    /\ st = Struct /\ bf = BitField(8) /\ bfa = BitFieldArray(1) /\ blobStrings = 0

Builds(r, op, name) ==
    /\ val' = r.s
    /\ res' = Result(op, name, r.err)
    /\ cur' = None /\ out' = NoOutput
    /\ UNCHANGED <<st, bf, bfa, blobStrings>>

Growing == val.k = "struct" /\ NumMembers(val) < MaxTop

TreeAdd ==
    /\ Growing
    /\ \E v \in AddValues :
          Builds(StructAdd(val, NumMembers(val) + 1, v), "add", NumMembers(val) + 1)

TreeAddReference ==
    /\ Growing
    /\ \E v \in AddReferenceValues, w \in {8, 16} :
          Builds(StructAddReference(val, NumMembers(val) + 1, v, w, NoneValue),
                 "addReference", NumMembers(val) + 1)

TreeAddImmediate ==
    /\ Growing
    /\ \E v \in AddImmediateValues :
          Builds(StructAddImmediate(val, NumMembers(val) + 1, v),
                 "addImmediate", NumMembers(val) + 1)

TreeFinalize ==
    /\ val.k = "struct"
    /\ Builds(StructFinalize(val, 4), "finalize", 0)

\* Reference(targetValue, referenceBitWidth, targetType)
NewReference ==
    /\ val = Struct
    /\ \E t \in {NoneValue, I8, I32, InnerB}, w \in ReferenceBitWidths,
          tt \in {NoneValue, CharType, IntType(32)} :
          Builds(IF ReferenceInitRaises(t, tt) THEN [err |-> "Exception", s |-> val]
                 ELSE [err |-> "ok", s |-> Reference(t, w)],
                 "Reference", 0)

\* SimpleArray(elementType, values, fixedSize)
NewSimpleArray ==
    /\ val = Struct
    /\ \E t \in {CharType, IntType(16), getType(InnerA), getType(InnerD)},
          n \in 0..3, f \in {None} \cup 0..2 :
          LET values == [i \in 1..n |->
                           CASE t = getType(InnerA) -> InnerA
                             [] t = getType(InnerD) -> InnerD
                             [] OTHER -> 96 + i]
          IN Builds(IF SimpleArrayInitRaises(t, values, f)
                    THEN [err |-> "AssertionError", s |-> val]
                    ELSE [err |-> "ok", s |-> SimpleArray(t, values, f, None)],
                    "SimpleArray", 0)

\* ReferenceArray(values, fixedSize, referenceBitWidth)
NewReferenceArray ==
    /\ val = Struct
    /\ \E vs \in {<<>>, <<I16>>, <<NoneValue, I16>>, <<I8, I32, NoneValue>>,
                  <<Reference(I8, 8)>>},
          f \in {None} \cup 1..2, w \in {8, 16} :
          Builds(IF ReferenceArrayInitRaises(vs, f)
                 THEN [err |-> IF Len(vs) = 0 THEN "EmptyCollection" ELSE "AssertionError",
                       s |-> val]
                 ELSE [err |-> "ok", s |-> ReferenceArray(vs, f, w)],
                 "ReferenceArray", 0)

\* namedstruct.pack(val) for dataOffset = None, val.pack(dataOffset) otherwise
PackValue ==
    /\ \E c \in {None} \cup 0..MaxCursor :
          /\ c = None \/ val.k = "ref"
             \/ (val.k \in {"sarr", "rarr"} /\ c >= getImmediateDataSize(val))
          /\ cur' = c
          /\ out' = IF c = None THEN namedstructPack(Label(val, <<>>))
                    ELSE ValuePack(Label(val, <<>>), c)
          /\ res' = Result("pack", 0, IF out'.err THEN "InvalidOperation" ELSE "ok")
    /\ UNCHANGED <<val, st, bf, bfa, blobStrings>>

PackNext ==
    \/ TreeAdd \/ TreeAddReference \/ TreeAddImmediate \/ TreeFinalize
    \/ NewReference \/ NewSimpleArray \/ NewReferenceArray
    \/ PackValue

PackSpec == PackInit /\ [][PackNext]_vars

----------------------------------------------------------------------------
(* Reading a packed buffer by its labels *)

IsPrefix(p, q) == Len(p) <= Len(q) /\ SubSeq(q, 1, Len(p)) = p

\* the indices of the bytes the value at path p (or a value below it) emitted
Indices(buf, p) == {i \in 1..Len(buf) : IsPrefix(p, buf[i].o)}

HasBytes(buf, p) == Indices(buf, p) # {}

\* offset from the buffer's start of the first byte of the value at path p
Pos(buf, p) == (CHOOSE i \in Indices(buf, p) : \A j \in Indices(buf, p) : i <= j) - 1

\* the integer written for the reference at path p
Pointer(buf, p) == Decode(SelectSeq(buf, LAMBDA b : b.o = p))

\* Every reference r of the labelled tree v that points at bytes of buf, with
\* the offset its pointer is counted from when pointers are relative to the
\* value pack was called on without a dataOffset (base is that value's start),
\* and, inside a simple array of records, relative to the record.
RECURSIVE RefBases(_, _, _)
RefBases(v, base, buf) ==
    CASE v.k = "ref" ->
            IF v.targetValue.k # "null" /\ HasBytes(buf, v.targetValue.p)
            THEN {[r |-> v, base |-> base]}
                 \cup RefBases(v.targetValue, Pos(buf, v.targetValue.p), buf)
            ELSE {}
      [] v.k \in {"struct", "rarr"} ->
            UNION {RefBases(v.values[i], base, buf) : i \in 1..Len(v.values)}
      [] v.k = "sarr" /\ v.elementsAreValueObjects ->
            UNION {RefBases(v.values[i],
                            base + Pos(buf, v.values[i].p) - Pos(buf, v.p), buf) :
                   i \in 1..Len(v.values)}
      [] OTHER -> {}

\* the state after namedstruct.pack(val) returned for a Struct val
PackedTop == res.op = "pack" /\ cur = None /\ val.k = "struct" /\ ~out.err

TopRefs == RefBases(Label(val, <<>>), 0, out.imm)

----------------------------------------------------------------------------
(* C1 *)

----------------------------------------------------------------------------
(* C2 *)

\* C2, as claimed: in the buffer namedstruct.pack returns for a Struct, the
\* first byte of every non-null reference's target lies at a multiple of the
\* target type's alignment.
C2_TargetsAligned ==
    PackedTop =>
        \A x \in TopRefs :
            Pos(out.imm, x.r.targetValue.p) % getAlignment(x.r.targetValue) = 0

----------------------------------------------------------------------------
(* C3 *)

NullReferencePacked ==
    /\ res.op = "pack" /\ cur # None
    /\ val.k = "ref" /\ val.targetValue.k = "null"

\* C3: a Reference without a target packs, for every write cursor and pointer
\* width w, to w/8 zero bytes of inline data and no indirect data.
C3_NullReference ==
    NullReferencePacked =>
        /\ ~out.err
        /\ out.ind = <<>>
        /\ Len(out.imm) = val.referenceBitWidth \div 8
        /\ \A i \in 1..Len(out.imm) : out.imm[i].v = 0

C3_Witness ==
    /\ NullReferencePacked /\ cur = 5 /\ val.referenceBitWidth = 16
    /\ Len(out.imm) = 2

----------------------------------------------------------------------------
(* C4 *)

\* The indirect bytes a value contributes when its write cursor is c: for a
\* reference the alignment padding and its packed target.
RECURSIVE IndirectSize(_, _)
RECURSIVE IndirectSizes(_, _, _, _)
PackedSize(v) == getImmediateDataSize(v) + IndirectSize(v, getImmediateDataSize(v))

\* of values[i..], the cursor of each lowered by shift per inline byte before it
IndirectSizes(values, i, c, shift) ==
    IF i > Len(values) THEN 0
    ELSE LET n == IndirectSize(values[i], c)
         IN n + IndirectSizes(values, i + 1,
                              c + n - shift * getImmediateDataSize(values[i]), shift)

IndirectSize(v, c) ==
    CASE v.k = "ref" /\ v.targetValue.k # "null" ->
            ((-c) % getAlignment(v.targetValue)) + PackedSize(v.targetValue)
      [] v.k \in {"struct", "rarr"} -> IndirectSizes(v.values, 1, c, 0)
      [] v.k = "sarr" /\ v.elementsAreValueObjects -> IndirectSizes(v.values, 1, c, 1)
      [] OTHER -> 0

RECURSIVE HoldsReference(_)
HoldsReference(v) ==
    CASE v.k = "ref" -> v.targetValue.k # "null"
      [] v.k \in {"struct", "rarr"} ->
            \E i \in 1..Len(v.values) : HoldsReference(v.values[i])
      [] v.k = "sarr" /\ v.elementsAreValueObjects ->
            \E i \in 1..Len(v.values) : HoldsReference(v.values[i])
      [] OTHER -> FALSE

----------------------------------------------------------------------------
(* C10 *)

FixedArray == val.k \in {"sarr", "rarr"} /\ val.fixedSize # None

\* the inline part of what the last pack call returned for the array val
Inline == SubSeq(out.imm, 1, getImmediateDataSize(val))

Slot(i) == SubSeq(Inline, (i - 1) * val.elementType.width + 1, i * val.elementType.width)

\* C10: an array with a fixed length L is never built from more than L
\* elements (the constructor raises); packed, its inline data is L slots of
\* the element width, the first n holding the n elements in order and the
\* others zero bytes.
C10_FixedLength ==
    /\ FixedArray => Len(val.values) <= val.fixedSize
    /\ (res.op \in {"SimpleArray", "ReferenceArray"} /\ res.err # "ok") => val = Struct
    /\ (FixedArray /\ res.op = "pack" /\ ~out.err) =>
          /\ Len(out.imm) >= val.fixedSize * val.elementType.width
          /\ cur # None => Len(out.imm) = val.fixedSize * val.elementType.width
          /\ \A i \in 1..val.fixedSize, j \in 1..val.elementType.width :
                IF i <= Len(val.values)
                THEN /\ IsPrefix(<<i>>, Slot(i)[j].o)
                     /\ ~val.elementsAreValueObjects => Decode(Slot(i)) = val.values[i]
                     /\ val.k = "rarr" =>
                           (Decode(Slot(i)) = 0 <=> val.values[i].targetValue.k = "null")
                ELSE Slot(i)[j] = Byte(0, <<>>)

\* a fixed-length reference array with an unused slot was packed
C10_Witness ==
    /\ FixedArray /\ res.op = "pack" /\ ~out.err /\ cur # None
    /\ val.k = "rarr" /\ Len(val.values) = 1 /\ val.fixedSize = 2
    /\ val.referenceBitWidth = 16
    /\ Len(out.imm) = 4 /\ Len(out.ind) > 0

----------------------------------------------------------------------------
(* Builder sessions: calls on one Struct, st *)

Names == 1..MaxMembers

Init ==
    /\ st = Struct /\ res = Result("init", 0, "ok")
    /\ val = Struct /\ cur = None /\ out = NoOutput
    /\ bf = BitField(8) /\ bfa = BitFieldArray(1) /\ blobStrings = 0

\* the call returned or raised: r is [err, s]
Returns(r, op, name) ==
    /\ r.err = "ok" => NumMembers(r.s) <= MaxMembers
    /\ st' = r.s
    /\ res' = Result(op, name, r.err)
    /\ UNCHANGED <<bf, bfa, blobStrings, val, cur, out>>

\* Struct.addInt8, Struct.addInt32
AddInt ==
    \E name \in Names, bitWidth \in {8, 32} :
        Returns(StructAdd(st, name, IntValue(5, FALSE, bitWidth)), "addInt", name)

\* Struct.add
Add ==
    \E name \in Names, value \in {NoneValue, InnerD} :
        Returns(StructAdd(st, name, value), "add", name)

\* Struct.addImmediate
AddImmediate ==
    \E name \in Names, value \in {Struct} :
        Returns(StructAddImmediate(st, name, value), "addImmediate", name)

\* Struct.addReference, Struct.addRef8
AddReference ==
    \E name \in Names, value \in {NoneValue, InnerD}, w \in {32},
       targetType \in {NoneValue, CharType} :
        Returns(StructAddReference(st, name, value, w, targetType), "addReference", name)

\* Struct.addString(name, string, fixedWidth), a being <<string, fixedWidth>>
AddString ==
    \E name \in Names, a \in {<<None, None>>, <<None, 4>>, <<2, None>>}, w \in {8} :
        Returns(StructAddString(st, name, a[1], a[2], FALSE, w), "addString", name)

\* Struct.finalize
Finalize ==
    \E byteAlignment \in {4} :
        Returns(StructFinalize(st, byteAlignment), "finalize", 0)

Next == AddInt \/ Add \/ AddImmediate \/ AddReference \/ AddString \/ Finalize

Spec == Init /\ [][Next]_vars

----------------------------------------------------------------------------
(* Layout of the members of st *)

IsMember(slot) == ~slot.pad
MemberSlots(s) == SelectSeq(s.slots, IsMember)

\* the offset is the running immediate size rounded up to the member's alignment
OffsetsAligned(m) ==
    \A i \in 1..Len(m) :
        /\ m[i].offset % m[i].alignment = 0
        /\ m[i].offset = RoundUp(IF i = 1 THEN 0 ELSE m[i-1].offset + m[i-1].width,
                                 m[i].alignment)

\* slot i of the layout describes value i of the member-value list
LockStep(s) ==
    /\ Len(s.values) = Len(s.slots)
    /\ \A i \in 1..Len(s.slots) :
           IF s.slots[i].pad THEN s.values[i] = Padding
           ELSE /\ s.slots[i].alignment = getAlignment(s.values[i])
                /\ s.slots[i].width = getImmediateDataSize(s.values[i])

RangesDisjoint(m) ==
    \A i \in 1..Len(m) : \A j \in (i+1)..Len(m) : m[i].offset + m[i].width <= m[j].offset

----------------------------------------------------------------------------
(* Calls on a finalized Struct, and calls with a name already taken *)

AddOps == {"addInt", "add", "addImmediate", "addReference", "addString"}

\* the last call was rejected by the method's own test of its arguments, which
\* comes before the Struct's type is asked to add the member
ArgumentsRejected(r) ==
    \/ r.op = "addReference" /\ r.err = "Exception"
    \/ r.op = "addString" /\ r.err \in {"Exception", "AssertionError"}

Layout(s) == [slots |-> s.slots, size |-> s.size, values |-> s.values,
              finalized |-> s.finalized]

\* C6 (as stated): once finalize has succeeded, every later add-member call and
\* every later finalize fails with StructAlreadyFinalized and leaves member
\* names, offsets, total size and the member-value list as they were.
C6_AlwaysStructAlreadyFinalized ==
    [][st.finalized =>
          /\ res'.err = "StructAlreadyFinalized"
          /\ Layout(st') = Layout(st)]_<<st, res>>

\* C6 (amended): once finalize has succeeded, every later add-member call and
\* every later finalize fails and leaves member names, offsets, total size and
\* the member-value list as they were; the failure is StructAlreadyFinalized
\* unless the method rejects its own arguments first (addReference given both a
\* value and a targetType, addString given None with a fixedWidth).
C6_Frozen ==
    [][st.finalized =>
          /\ res'.err # "ok"
          /\ ArgumentsRejected(res') \/ res'.err = "StructAlreadyFinalized"
          /\ Layout(st') = Layout(st)]_<<st, res>>

\* a member was offered to a finalized Struct of two members and refused
C6_Witness ==
    /\ st.finalized
    /\ NumMembers(st) = 2
    /\ res.op \in AddOps
    /\ res.err = "StructAlreadyFinalized"

NamesUnique(s) ==
    \A i, j \in 1..Len(s.slots) :
        (~s.slots[i].pad /\ ~s.slots[j].pad /\ s.slots[i].name = s.slots[j].name) => i = j

\* the step is an add-member call on an open Struct under a name it has
NameTaken == ~st.finalized /\ res'.op \in AddOps /\ res'.name \in MemberNames(st)

\* C7 (as stated): adding a member under a name the Struct already has fails
\* with NameCollision and leaves the Struct unchanged.
C7_AlwaysNameCollision ==
    [][NameTaken => (res'.err = "NameCollision" /\ st' = st)]_<<st, res>>

\* C7 (amended): adding a member under a name the Struct already has fails and
\* leaves the Struct unchanged: no member, no padding placeholder and no value
\* is added, offsets and immediate size keep their values, and member names are
\* unique in the Struct the call leaves; the failure is NameCollision unless the
\* method rejects its own arguments first.
C7_NameCollision ==
    [][/\ NameTaken =>
            /\ res'.err # "ok"
            /\ ArgumentsRejected(res') \/ res'.err = "NameCollision"
            /\ st' = st
       /\ NamesUnique(st')]_<<st, res>>

\* a second member was refused for carrying the name of the first
C7_Witness ==
    /\ ~st.finalized
    /\ NumMembers(st) = 1
    /\ res.err = "NameCollision"
    /\ res.name \in MemberNames(st)

----------------------------------------------------------------------------
(* Sessions with the mutable objects: a Struct st holding the BitField bf and
   the BitFieldArray bfa, which keep their add methods, and pack calls *)

SessionNames == {1, 2}

\* how many Blob objects pack(v) constructs: one for every BitFieldArray packed
RECURSIVE BlobsBuilt(_)
BlobsBuilt(v) ==
    CASE v.k = "bfa" -> 1
      [] v.k = "ref" -> BlobsBuilt(v.targetValue)
      [] v.k = "struct" -> SumSeq([i \in 1..Len(v.values) |-> BlobsBuilt(v.values[i])])
      [] OTHER -> 0

\* a call on the Struct returned or raised: r is [err, s]
SessionReturns(r, op, name) ==
    /\ st' = r.s
    /\ res' = Result(op, name, r.err)
    /\ out' = NoOutput
    /\ UNCHANGED <<bf, bfa, blobStrings, val, cur>>

\* Struct.add of an integer or of the BitField
SessionAdd ==
    \E name \in SessionNames, value \in {I8, BitFieldRef} :
        SessionReturns(StructAdd(st, name, value), "add", name)

\* Struct.addImmediate of the BitFieldArray
SessionAddImmediate ==
    \E name \in SessionNames :
        SessionReturns(StructAddImmediate(st, name, BitFieldArrayRef), "addImmediate", name)

\* Struct.finalize
SessionFinalize == SessionReturns(StructFinalize(st, 4), "finalize", 0)

\* BitField.add on the object the Struct may hold
BitFieldAddField ==
    /\ Len(bf.values) < MaxFields
    /\ \E value \in {1}, bitWidth \in {1, 2} :
          LET r == BitFieldAdd(bf, value, bitWidth)
          IN /\ bf' = r.b
             /\ res' = Result("BitField.add", 0, r.err)
    /\ out' = NoOutput
    /\ UNCHANGED <<st, bfa, blobStrings, val, cur>>

\* BitFieldArray.add on the object the Struct may hold
BitFieldArrayAddEntry ==
    /\ Len(bfa.entries) < MaxEntries
    /\ \E fieldValues \in {<<IntField(0)>>, <<IntField(5)>>} :
          LET r == BitFieldArrayAdd(bfa, fieldValues)
          IN /\ bfa' = r.a
             /\ res' = Result("BitFieldArray.add", 0, r.err)
    /\ out' = NoOutput
    /\ UNCHANGED <<st, bf, blobStrings, val, cur>>

\* namedstruct.pack(st)
SessionPack ==
    /\ blobStrings + BlobsBuilt(st) <= MaxBlobs
    /\ out' = namedstructPack(Label(st, <<>>))
    /\ blobStrings' = blobStrings + BlobsBuilt(st)
    /\ res' = Result("pack", 0, IF out'.err THEN "InvalidOperation" ELSE "ok")
    /\ UNCHANGED <<st, bf, bfa, val, cur>>

SessionNext ==
    \/ SessionAdd \/ SessionAddImmediate \/ SessionFinalize
    \/ BitFieldAddField \/ BitFieldArrayAddEntry
    \/ SessionPack

SessionSpec == Init /\ [][SessionNext]_vars

----------------------------------------------------------------------------
(* C8, C9 *)

\* what namedstruct.pack(st) returns, and st's immediate size, in a state
PackOfStruct == namedstructPack(Label(st, <<>>))
SizeOfStruct == getImmediateDataSize(st)

\* C8 (as stated): once the Struct is finalized, no later operation on it or
\* on a value object of its tree (BitField.add, BitFieldArray.add) changes the
\* bytes pack produces for it or its immediate size.
C8_PackedBytesFrozen ==
    [][st.finalized => (PackOfStruct' = PackOfStruct /\ SizeOfStruct' = SizeOfStruct)]_vars

----------------------------------------------------------------------------
(* Strings: String(string, fixedSize, omitTerminal) is constructed from a
   string of n characters 'a', then packed *)

StringCall(op, err, n, fixedSize, omitTerminal) ==
    [op |-> op, name |-> 0, err |-> err,
     string |-> n, fixedSize |-> fixedSize, omitTerminal |-> omitTerminal]

\* String(string, fixedSize, omitTerminal)
NewString ==
    /\ \E n \in 0..MaxChars, fixedSize \in {None} \cup 0..MaxWidth, omitTerminal \in BOOLEAN :
          IF SimpleArrayInitRaises(CharType, StringChars(n, 97, omitTerminal), fixedSize)
          THEN /\ val' = Struct
               /\ res' = StringCall("String", "AssertionError", n, fixedSize, omitTerminal)
          ELSE /\ val' = String(n, 97, fixedSize, omitTerminal)
               /\ res' = StringCall("String", "ok", n, fixedSize, omitTerminal)
    /\ cur' = None /\ out' = NoOutput
    /\ UNCHANGED <<st, bf, bfa, blobStrings>>

\* namedstruct.pack(val) or val.pack(dataOffset) of the String just built
PackString ==
    /\ res.op \in {"String", "packString"} /\ res.err = "ok"
    /\ \E c \in {None} \cup 0..MaxCursor :
          /\ cur' = c
          /\ out' = IF c = None THEN namedstructPack(Label(val, <<>>))
                    ELSE ValuePack(Label(val, <<>>), c)
    /\ res' = [res EXCEPT !.op = "packString"]
    /\ UNCHANGED <<val, st, bf, bfa, blobStrings>>

StringNext == NewString \/ PackString

StringSpec == PackInit /\ [][StringNext]_vars

\* characters plus the terminator byte unless it is omitted
ContentLength == res.string + (IF res.omitTerminal THEN 0 ELSE 1)

\* the bytes of the last pack call are the n characters, then zero bytes, in
\* all len bytes
PackedStringIs(len) ==
    /\ ~out.err /\ out.ind = <<>>
    /\ Len(out.imm) = len
    /\ \A i \in 1..len : out.imm[i].v = (IF i <= res.string THEN 97 ELSE 0)

StringPacksToWidth ==
    res.op = "packString" =>
        PackedStringIs(IF res.fixedSize = None THEN ContentLength ELSE res.fixedSize)

\* C11 (as stated): a String with a fixed width w occupies exactly w bytes,
\* shorter content being zero-padded and longer content truncated to w;
\* with no fixed width the length is charCount + 1 (charCount when the
\* terminator is omitted).
C11_FixedWidthTruncates ==
    /\ res.op = "String" => res.err = "ok"
    /\ StringPacksToWidth

\* C11 (amended): a String with a fixed width w is constructed exactly when
\* its content (characters plus the terminator unless omitted) is at most w
\* bytes long, and then occupies exactly w bytes, the content zero-padded to
\* w; longer content is rejected by the constructor's assertion, not
\* truncated; with no fixed width the length is charCount + 1 (charCount
\* when the terminator is omitted).
C11_FixedWidthPads ==
    /\ res.op = "String" =>
          /\ res.err = "ok" <=> (res.fixedSize = None \/ ContentLength <= res.fixedSize)
          /\ res.err # "ok" => val = Struct
    /\ StringPacksToWidth

\* a one-character string with its terminator was packed at width 3
C11_Witness ==
    /\ res.op = "packString" /\ res.string = 1 /\ ~res.omitTerminal
    /\ res.fixedSize = 3 /\ cur = 5
    /\ Len(out.imm) = 3

----------------------------------------------------------------------------
(* BitFields: BitField(name, bitWidth) is constructed, fields are added,
   and the object is packed *)

BitFieldCall(op, err, value, bitWidth) ==
    [op |-> op, name |-> 0, err |-> err, value |-> value, bitWidth |-> bitWidth]

\* <<value, bitWidth>> of the add calls
BitFieldCalls == {<<1, 1>>, <<0, 1>>, <<3, 2>>, <<3, 16>>, <<-1, 1>>, <<2, 1>>, <<4, 2>>}

\* BitField(name, bitWidth)
NewBitField ==
    /\ \E bitWidth \in {8, 16, 32} :
          /\ bf' = BitField(bitWidth)
          /\ res' = BitFieldCall("BitField", "ok", 0, bitWidth)
    /\ cur' = None /\ out' = NoOutput
    /\ UNCHANGED <<st, bfa, blobStrings, val>>

\* bf.add(name, value, bitWidth)
BitFieldAddCall ==
    /\ Len(bf.values) < MaxBitFields
    /\ \E a \in BitFieldCalls :
          LET r == BitFieldAdd(bf, a[1], a[2])
          IN /\ bf' = r.b
             /\ res' = BitFieldCall("BitField.add", r.err, a[1], a[2])
    /\ cur' = None /\ out' = NoOutput
    /\ UNCHANGED <<st, bfa, blobStrings, val>>

\* namedstruct.pack(bf) or bf.pack(dataOffset)
PackBitField ==
    /\ \E c \in {None, 0, 5} :
          /\ cur' = c
          /\ out' = IF c = None THEN namedstructPack(Label(BitFieldRef, <<>>))
                    ELSE ValuePack(Label(BitFieldRef, <<>>), c)
    /\ res' = BitFieldCall("packBitField", "ok", 0, 0)
    /\ UNCHANGED <<st, bf, bfa, blobStrings, val>>

BitFieldNext == NewBitField \/ BitFieldAddCall \/ PackBitField

BitFieldSpec == PackInit /\ [][BitFieldNext]_vars

\* the byte values of the buffer the last pack call returned
OutBytes == [i \in 1..Len(out.imm) |-> out.imm[i].v]

\* the BitField of the example: aFlag=1, bFlag=0, cFlag=1, values=3 (2 bits)
ExampleBitField == [bitWidth |-> 8, fieldWidths |-> <<1, 1, 1, 2>>, values |-> <<1, 0, 1, 3>>]

ExamplePacked == res.op = "packBitField" /\ bf = ExampleBitField

\* C12 (as stated): the 8-bit BitField with aFlag=1 (1 bit), bFlag=0 (1 bit),
\* cFlag=1 (1 bit), values=3 (2 bits) packs to the single byte 0x17 (23).
C12_Packs0x17 == ExamplePacked => (~out.err /\ OutBytes = <<23>>)

\* C12 (amended): the 8-bit BitField with aFlag=1 (1 bit), bFlag=0 (1 bit),
\* cFlag=1 (1 bit), values=3 (2 bits) packs to the single byte 0x1D (29):
\* bits 1,0,1,1,1,0,0,0 least significant first.
C12_Packs0x1D == ExamplePacked => (~out.err /\ out.ind = <<>> /\ OutBytes = <<29>>)

C12_Witness == ExamplePacked /\ cur = None /\ Len(out.imm) = 1

----------------------------------------------------------------------------
(* C13 *)

\* the bits before field i of a BitField b
ShiftOf(b, i) == SumSeq(SubSeq(b.fieldWidths, 1, i - 1))

\* the sum over the fields of value << shift
FieldSum(b) == SumSeq([i \in 1..Len(b.values) |-> b.values[i] * Pow2(ShiftOf(b, i))])

\* what the packed bytes of bf say: an integer of bf.bitWidth bits that is the
\* sum of the shifted field values and gives every field back
BitFieldPackedRight ==
    res.op = "packBitField" =>
        /\ ~out.err /\ out.ind = <<>>
        /\ Len(out.imm) = bf.bitWidth \div 8
        /\ Decode(out.imm) = FieldSum(bf)
        /\ \A i \in 1..Len(bf.values) :
              (Decode(out.imm) \div Pow2(ShiftOf(bf, i))) % Pow2(bf.fieldWidths[i])
                 = bf.values[i]

\* the add call of the step is one that has to be rejected
BadField ==
    \/ res'.value < 0
    \/ res'.value >= Pow2(res'.bitWidth)
    \/ SumSeq(bf.fieldWidths) + res'.bitWidth > bf.bitWidth

\* C13: for container widths 8, 16, 32 and any sequence of successful adds
\* the packed unsigned integer is the sum of value_i << (widths before i),
\* fits the container and gives back every field as (packed >> shift_i) mod
\* 2^width_i; an add whose value is negative or >= 2^bitWidth, or that makes
\* the summed widths exceed the container, is rejected and leaves the field
\* list and the value list unchanged and of equal length.
C13_BitFieldPacking ==
    /\ [](Len(bf.values) = Len(bf.fieldWidths) /\ BitFieldPackedRight)
    /\ [][res'.op = "BitField.add" =>
            IF BadField THEN res'.err # "ok" /\ bf' = bf
            ELSE /\ res'.err = "ok"
                 /\ bf'.values = Append(bf.values, res'.value)
                 /\ bf'.fieldWidths = Append(bf.fieldWidths, res'.bitWidth)]_vars

\* a 32-bit BitField with two 16-bit fields, refused a third, was packed
C13_Witness ==
    /\ res.op = "packBitField"
    /\ bf.bitWidth = 32 /\ bf.fieldWidths = <<16, 16>> /\ bf.values = <<3, 3>>
    /\ Len(out.imm) = 4

----------------------------------------------------------------------------
(* BitFieldArrays: BitFieldArray(name, *fields) is constructed, entries are
   added and the object is packed *)

\* the Blob objects handed to add exist before the session: each
\* construction appended to blobStrings
SessionBlobs == {<<1, 0, 1, 1>>, <<1>>}

ArrayInit ==
    /\ bfa = BitFieldArray(1) /\ blobStrings = Cardinality(SessionBlobs)
    /\ res = Result("init", 0, "ok")
    /\ val = Struct /\ cur = None /\ out = NoOutput
    /\ st = Struct /\ bf = BitField(8)

\* the sequences handed to add
EntryInputs ==
    {<<IntField(0)>>, <<IntField(5)>>, <<BlobField(<<1, 0, 1, 1>>)>>, <<BlobField(<<1>>)>>,
     <<IntField(-1)>>, <<OtherField>>, <<IntField(2147483647)>>,
     <<IntField(1), IntField(2)>>, <<IntField(0), IntField(0)>>,
     <<IntField(6), BlobField(<<1>>)>>, <<BlobField(<<1, 0, 1, 1>>), IntField(1)>>,
     <<IntField(1), IntField(-1)>>,
     <<IntField(1), IntField(2), IntField(4)>>, <<IntField(0), IntField(0), IntField(0)>>}

ArrayCall(op, err, fieldValues) ==
    [op |-> op, name |-> 0, err |-> err, fieldValues |-> fieldValues]

\* BitFieldArray(name, *fields)
NewBitFieldArray ==
    /\ \E numFields \in 1..MaxArrayFields :
          /\ bfa' = BitFieldArray(numFields)
          /\ res' = ArrayCall("BitFieldArray", "ok", <<>>)
    /\ cur' = None /\ out' = NoOutput
    /\ UNCHANGED <<st, bf, blobStrings, val>>

\* bfa.add(fieldValues)
ArrayAdd ==
    /\ Len(bfa.entries) < MaxEntries
    /\ \E fieldValues \in EntryInputs :
          /\ Len(fieldValues) <= MaxArrayFields + 1
          /\ LET r == BitFieldArrayAdd(bfa, fieldValues)
             IN /\ bfa' = r.a
                /\ res' = ArrayCall("BitFieldArray.add", r.err, fieldValues)
    /\ cur' = None /\ out' = NoOutput
    /\ UNCHANGED <<st, bf, blobStrings, val>>

\* namedstruct.pack(bfa): one Blob is constructed
PackArray ==
    /\ blobStrings < Cardinality(SessionBlobs) + MaxBlobs
    /\ cur' = None
    /\ out' = namedstructPack(Label(BitFieldArrayRef, <<>>))
    /\ blobStrings' = blobStrings + 1
    /\ res' = ArrayCall("packArray", "ok", <<>>)
    /\ UNCHANGED <<st, bf, bfa, val>>

ArrayNext == NewBitFieldArray \/ ArrayAdd \/ PackArray

ArraySpec == ArrayInit /\ [][ArrayNext]_vars

\* the 16-bit words of the packed header, word 0 first
HeaderWord(i) == Decode(SubSeq(out.imm, 2 * i + 1, 2 * i + 2))

\* the widths of the fields, field by field: the largest number of bits an
\* added value needs (the bits of a Blob)
RECURSIVE BitsOf(_)
BitsOf(x) == IF x = 0 THEN 0 ELSE 1 + BitsOf(x \div 2)
WidthOf(f) ==
    LET need(e) == IF bfa.entries[e][f].isBlob THEN Len(bfa.entries[e][f].bits)
                   ELSE BitsOf(bfa.entries[e][f].value)
    IN IF bfa.entries = <<>> THEN 0
       ELSE CHOOSE w \in {need(e) : e \in 1..Len(bfa.entries)} :
                \A e \in 1..Len(bfa.entries) : need(e) <= w
WidthsBefore(f) == SumSeq([g \in 1..(f - 1) |-> WidthOf(g)])

ArrayPacked == res.op = "packArray" /\ ~out.err

\* C14 (as stated): the packed output begins with F+2 unsigned 16-bit words;
\* word 0 is the total bits per entry and words 1..F are the exclusive prefix
\* sums of the field widths, measured from the end of the header, so word 1
\* is 0.
C14_HeaderFromEndOfHeader ==
    ArrayPacked =>
        /\ Len(out.imm) >= 2 * (bfa.numFields + 2)
        /\ HeaderWord(0) = WidthsBefore(bfa.numFields + 1)
        /\ \A f \in 1..bfa.numFields : HeaderWord(f) = WidthsBefore(f)

\* C14 (amended): the packed output begins with F+2 unsigned 16-bit words;
\* word 0 is the total bits per entry, and words 1..F+1 are the header's own
\* length in bits, (F+2)*16, plus the exclusive prefix sums of the field
\* widths: each field's bit offset measured from the start of the packed
\* output, so word 1 is (F+2)*16 and word F+1 is (F+2)*16 plus the total.
C14_HeaderFromStart ==
    ArrayPacked =>
        /\ Len(out.imm) >= 2 * (bfa.numFields + 2)
        /\ HeaderWord(0) = WidthsBefore(bfa.numFields + 1)
        /\ \A f \in 1..(bfa.numFields + 1) :
              HeaderWord(f) = (bfa.numFields + 2) * 16 + WidthsBefore(f)

\* a BitFieldArray of two fields with two entries was packed
C14_Witness ==
    /\ ArrayPacked /\ bfa.numFields = 2 /\ Len(bfa.entries) = 2
    /\ HeaderWord(0) > 0 /\ HeaderWord(2) > HeaderWord(1)

----------------------------------------------------------------------------
(* C15 *)

\* C15: after any sequence of successful adds the width of field f read from
\* the packed header, word f+1 minus word f (fields counted from 1), is the
\* largest number of bits an added value of the field needs (the bit length of
\* a Blob), 0 for every field without entries; the bit blob after the header is
\* ceil(N * sum of widths / 8) bytes long and the whole output as long as
\* getImmediateDataSize().
C15_WidthsFromHeader ==
    ArrayPacked =>
        LET F == bfa.numFields
            N == Len(bfa.entries)
            S == WidthsBefore(F + 1)
        IN /\ \A f \in 1..F : HeaderWord(f + 1) - HeaderWord(f) = WidthOf(f)
           /\ N = 0 => \A f \in 1..F : HeaderWord(f + 1) - HeaderWord(f) = 0
           /\ Len(out.imm) - 2 * (F + 2) = (N * S + 7) \div 8
           /\ Len(out.imm) = getImmediateDataSize(BitFieldArrayRef)
           /\ out.ind = <<>>

\* two entries whose second widens both fields, one of them a Blob, packed
C15_Witness ==
    /\ ArrayPacked /\ bfa.numFields = 2 /\ Len(bfa.entries) = 2
    /\ bfa.entries[2][1].isBlob /\ ~bfa.entries[1][1].isBlob
    /\ WidthOf(1) = 4 /\ WidthOf(2) = 2
    /\ Len(out.imm) = 10

----------------------------------------------------------------------------
(* Blob members: a Struct st gets integer members and one blob, and is
   packed *)

BlobCall(op, err, name, byteAlignment) ==
    [op |-> op, name |-> name, err |-> err, byteAlignment |-> byteAlignment]

\* the index in st.values of the member added by addBlob, 0 without one
BlobMember == res.name

\* st.addInt8(name, 7)
BlobSessionAddInt ==
    /\ NumMembers(st) < MaxMembers + 1
    /\ LET r == StructAdd(st, NumMembers(st) + 1, I8)
       IN /\ st' = r.s
          /\ res' = [res EXCEPT !.op = "addInt", !.err = r.err]
    /\ out' = NoOutput
    /\ UNCHANGED <<bf, bfa, blobStrings, val, cur>>

\* st.addBlob(name, blob, byteAlignment, referenceBitWidth)
BlobSessionAddBlob ==
    /\ BlobMember = 0
    /\ \E blob \in {<<1>>, <<0, 1, 0, 0, 1, 0, 0, 1, 1>>}, byteAlignment \in {1, 2, 4, 8},
          referenceBitWidth \in {8, 32} :
          LET r == StructAddBlob(st, NumMembers(st) + 1, blob, byteAlignment,
                                 referenceBitWidth)
          IN /\ st' = r.s
             /\ res' = BlobCall("addBlob", r.err, Len(r.s.values), byteAlignment)
    /\ blobStrings' = blobStrings + 1
    /\ out' = NoOutput
    /\ UNCHANGED <<bf, bfa, val, cur>>

\* namedstruct.pack(st)
BlobSessionPack ==
    /\ out' = namedstructPack(Label(st, <<>>))
    /\ res' = [res EXCEPT !.op = "pack", !.err = "ok"]
    /\ UNCHANGED <<st, bf, bfa, blobStrings, val, cur>>

BlobInit ==
    /\ st = Struct /\ res = BlobCall("init", "ok", 0, 0)
    /\ val = Struct /\ cur = None /\ out = NoOutput
    /\ bf = BitField(8) /\ bfa = BitFieldArray(1) /\ blobStrings = 0

BlobNext == BlobSessionAddInt \/ BlobSessionAddBlob \/ BlobSessionPack

BlobSpec == BlobInit /\ [][BlobNext]_vars

BlobPacked == res.op = "pack" /\ BlobMember # 0 /\ ~out.err

\* C16 (as stated): addBlob(name, blob, byteAlignment=k) stores the blob
\* behind a reference whose target is aligned to k bytes for every k passed:
\* the pointer written is the write cursor, here the Struct's immediate size,
\* rounded up to a multiple of k, and the blob's bytes begin there.
C16_BlobAlignedAsAsked ==
    BlobPacked =>
        /\ Pointer(out.imm, <<BlobMember>>)
              = RoundUp(getImmediateDataSize(st), res.byteAlignment)
        /\ Pos(out.imm, <<BlobMember, 0>>) = Pointer(out.imm, <<BlobMember>>)

----------------------------------------------------------------------------
(* String members: addString calls on a Struct st of at most two members *)

AddStringCall(op, err, name, string, fixedWidth, referenceBitWidth) ==
    [op |-> op, name |-> name, err |-> err, string |-> string,
     fixedWidth |-> fixedWidth, referenceBitWidth |-> referenceBitWidth]

\* st.addInt8(name, 7)
StringSessionAddInt ==
    \E name \in SessionNames :
        LET r == StructAdd(st, name, I8)
        IN /\ st' = r.s
           /\ res' = AddStringCall("addInt", r.err, name, None, None, 0)
           /\ UNCHANGED <<bf, bfa, blobStrings, val, cur, out>>

\* st.addString(name, string, fixedWidth, referenceBitWidth=w), string being
\* None or a string of that many characters
StringSessionAddString ==
    \E name \in SessionNames, string \in {None, 2}, fixedWidth \in {None, 4},
       referenceBitWidth \in ReferenceBitWidths :
        LET r == StructAddString(st, name, string, fixedWidth, FALSE, referenceBitWidth)
        IN /\ st' = r.s
           /\ res' = AddStringCall("addString", r.err, name, string, fixedWidth, referenceBitWidth)
           /\ UNCHANGED <<bf, bfa, blobStrings, val, cur, out>>

StringMemberNext == StringSessionAddInt \/ StringSessionAddString

StringMemberSpec == Init /\ [][StringMemberNext]_vars

\* the slot of the member called name, and its value
SlotOf(s, name) == CHOOSE i \in 1..Len(s.slots) : ~s.slots[i].pad /\ s.slots[i].name = name

\* C17 (as stated): addString(name, s, referenceBitWidth=w) without a fixed
\* width adds a reference member whose pointer is w bits wide, w/8 inline
\* bytes, when s is a string and when s is None; addString of None with a
\* fixed width is rejected and leaves the Struct unchanged.
C17_StringReferenceWidth ==
    [][res'.op = "addString" =>
          /\ (res'.fixedWidth = None /\ res'.err = "ok") =>
                LET i == SlotOf(st', res'.name)
                    v == st'.values[i]
                IN /\ v.k = "ref"
                   /\ v.referenceBitWidth = res'.referenceBitWidth
                   /\ st'.slots[i].width = res'.referenceBitWidth \div 8
                   /\ Len(ValuePack(Label(v, <<i>>), st'.size).imm)
                         = res'.referenceBitWidth \div 8
          /\ (res'.string = None /\ res'.fixedWidth # None) =>
                (res'.err # "ok" /\ st' = st)]_vars

----------------------------------------------------------------------------
(* Lock-step of the type's slots and the member-value list *)

InlineSizes(s) == [i \in 1..Len(s.values) |-> getImmediateDataSize(s.values[i])]

\* the zero bytes Struct.pack appends after the members' inline bytes
CompensatingBytes(s) ==
    getImmediateDataSize(s) - Len(ValuePack(Label(s, <<>>), s.size).imm)

\* C18: after any sequence of add-member and finalize calls, failed ones
\* included, the member-value list has one entry per slot of the type in the
\* same order (a Padding per pad slot, a value of the slot's width per member
\* slot), the entries' inline sizes sum to the type's recorded immediate size,
\* and pack appends no compensating zero bytes.
C18_ValuesInLockStep ==
    /\ Len(st.values) = Len(st.slots)
    /\ \A i \in 1..Len(st.slots) :
           /\ st.slots[i].pad <=> st.values[i] = Padding
           /\ st.slots[i].width = getImmediateDataSize(st.values[i])
    /\ SumSeq(InlineSizes(st)) = st.size
    /\ ~ValuePack(Label(st, <<>>), st.size).err
    /\ CompensatingBytes(st) = 0

\* a finalized Struct with a member, pad bytes, and a last call that failed
C18_Witness ==
    /\ st.finalized /\ res.err # "ok"
    /\ \E i, j \in 1..Len(st.slots) : st.slots[i].pad /\ ~st.slots[j].pad
    /\ st.slots[Len(st.slots)].pad

----------------------------------------------------------------------------
(* Reference.pack on its own, in PackSpec *)

ByteValues(bs) == [i \in 1..Len(bs) |-> bs[i].v]

\* the last call packed val, a Reference
ReferencePacked == res.op = "pack" /\ val.k = "ref"

\* C19: packing a non-null Reference with write cursor c and target alignment
\* a yields inline bytes encoding c + p at the pointer width, p = (-c) mod a,
\* and indirect bytes made of p zero bytes followed by the target's complete
\* packed bytes; packing a Reference without a write cursor fails and yields
\* no bytes.
C19_ReferencePack ==
    ReferencePacked =>
        IF cur = None THEN out = Raised /\ res.err = "InvalidOperation"
        ELSE val.targetValue.k # "null" =>
                LET a == getAlignment(val.targetValue)
                    p == (-cur) % a
                    target == namedstructPack(Label(val, <<>>).targetValue)
                    full == ValuePack(Label(val, <<>>).targetValue, None)
                IN /\ 0 <= p /\ p < a /\ (cur + p) % a = 0
                   /\ ~out.err /\ ~target.err
                   /\ Len(out.imm) = val.referenceBitWidth \div 8
                   /\ Decode(out.imm) = cur + p
                   /\ ByteValues(out.ind)
                         = [i \in 1..p |-> 0] \o ByteValues(full.imm)
                                              \o ByteValues(full.ind)

\* a Reference to an int32 packed at a cursor that is not a multiple of 4
C19_Witness ==
    /\ ReferencePacked /\ cur # None /\ val.targetValue.k # "null"
    /\ (-cur) % getAlignment(val.targetValue) = 3
    /\ ~out.err /\ Len(out.ind) = 7

----------------------------------------------------------------------------
(* The layout of a top-level Struct's buffer, in PackSpec *)

\* the entry of val.values a byte of the buffer belongs to
EntryOf(b) == Head(b.o)

\* buffer positions (from 1) behind the inline bytes that belong to entry m
Region(m) ==
    {x \in (getImmediateDataSize(val) + 1)..Len(out.imm) : EntryOf(out.imm[x]) = m}

\* the write cursor entry m is packed with
CursorAt(m) ==
    getImmediateDataSize(val)
    + Cardinality({x \in (getImmediateDataSize(val) + 1)..Len(out.imm) :
                      EntryOf(out.imm[x]) < m})

\* where the inline bytes of entry m start
InlineStart(m) == SumSeq([i \in 1..(m - 1) |-> getImmediateDataSize(val.values[i])])

\* C20: the buffer of a Struct packed as the top-level value is the members'
\* inline bytes in member order followed directly by the members' indirect
\* regions in member order; the write cursor starts at the Struct's immediate
\* size and advances by each member's indirect byte count, so every byte of a
\* later member's targets lies above every byte of an earlier member's
\* targets; the second component of the returned pair is empty.
C20_RegionsInMemberOrder ==
    PackedTop =>
        LET size == getImmediateDataSize(val)
            n == Len(val.values)
        IN /\ out.ind = <<>>
           /\ Len(out.imm) >= size
           /\ \A x \in 1..Len(out.imm) : out.imm[x].o # <<>> /\ EntryOf(out.imm[x]) \in 1..n
           /\ \A m \in 1..n :
                 /\ \A x \in (InlineStart(m) + 1)
                              ..(InlineStart(m) + getImmediateDataSize(val.values[m])) :
                        EntryOf(out.imm[x]) = m
                 /\ Cardinality(Region(m)) = IndirectSize(val.values[m], CursorAt(m))
           /\ InlineStart(n + 1) = size
           /\ \A m, l \in 1..n :
                 m < l => \A x \in Region(m), y \in Region(l) : x < y

\* two members that both own indirect data were packed
C20_Witness ==
    /\ PackedTop
    /\ \E m, l \in 1..Len(val.values) : m < l /\ Region(m) # {} /\ Region(l) # {}

----------------------------------------------------------------------------
(* The bit blob of a packed BitFieldArray, in ArraySpec *)

\* bit n (from 0) of the blob that follows the header: bit n % 8 of byte n / 8
BlobBit(n) ==
    (out.imm[2 * (bfa.numFields + 2) + (n \div 8) + 1].v \div Pow2(n % 8)) % 2

\* the integer the w bits from blob bit start on encode, least significant first
FieldInteger(start, w) == SumSeq([j \in 1..w |-> BlobBit(start + j - 1) * Pow2(j - 1)])

\* every field of every entry sits at bit k*S + (w_0 + ... + w_(f-1))
EntriesBackToBack ==
    ArrayPacked =>
        LET S == WidthsBefore(bfa.numFields + 1)
        IN \A k \in 1..Len(bfa.entries), f \in 1..bfa.numFields :
              LET start == (k - 1) * S + WidthsBefore(f)
                  e == bfa.entries[k][f]
              IN IF e.isBlob
                 THEN \A j \in 1..WidthOf(f) :
                         BlobBit(start + j - 1)
                            = IF j <= Len(e.bits) THEN e.bits[j] ELSE 0
                 ELSE FieldInteger(start, WidthOf(f)) = e.value

\* add takes a Blob or an integer in [0, 2^31) for every field
Accepted(fieldValues) ==
    \A i \in 1..Len(fieldValues) :
        \/ fieldValues[i].t = "blob"
        \/ /\ fieldValues[i].t = "int"
           /\ 0 <= fieldValues[i].value /\ fieldValues[i].value <= 2147483647

\* one call of add: what it stores when it returns, nothing when it raises
AddStoresOrRejects ==
    res'.op = "BitFieldArray.add" =>
        LET fieldValues == res'.fieldValues
        IN /\ res'.err = "ok" <=>
                 (Accepted(fieldValues) /\ Len(fieldValues) = bfa.numFields)
           /\ res'.err = "ok" =>
                 /\ Len(bfa'.entries) = Len(bfa.entries) + 1
                 /\ SubSeq(bfa'.entries, 1, Len(bfa.entries)) = bfa.entries
                 /\ \A i \in 1..Len(fieldValues) :
                       LET e == bfa'.entries[Len(bfa'.entries)][i]
                       IN /\ e.isBlob <=> fieldValues[i].t = "blob"
                          /\ e.isBlob => e.bits = fieldValues[i].bits
                          /\ ~e.isBlob => e.value = fieldValues[i].value
           /\ res'.err # "ok" => bfa' = bfa

\* C21: in the bit blob of a packed BitFieldArray the entries are stored back
\* to back with the fields in declaration order: the w_f bits from blob bit
\* k*S + (w_0 + ... + w_(f-1)) on, read least significant bit first, are the
\* integer that was added, or the Blob's bits followed by zeros up to w_f;
\* add accepts only Blobs and integers in [0, 2^31), and a rejected add
\* leaves the entry list unchanged.
C21_BlobLayout == []EntriesBackToBack /\ [][AddStoresOrRejects]_vars

\* two entries of two fields packed, the first holding a Blob shorter than
\* its field and an integer, the second two integers
C21_Witness ==
    /\ ArrayPacked /\ bfa.numFields = 2 /\ Len(bfa.entries) = 2
    /\ bfa.entries[1][2].isBlob /\ Len(bfa.entries[1][2].bits) < WidthOf(2)
    /\ ~bfa.entries[1][1].isBlob /\ bfa.entries[1][1].value = 6
    /\ bfa.entries[2][1].value = 1 /\ bfa.entries[2][2].value = 2

====
